---------------------------- MODULE Spec2Model ----------------------------
(***************************************************************************)
(* A model of sosar: a reader of Apple II SOS/ProDOS disk images.          *)
(*                                                                         *)
(* The module holds five state machines over one set of variables:         *)
(*   SpecInterleave  sector reinterleaving of a 16-sector floppy image     *)
(*   SpecBitmap      the allocation bitmap's get and set                    *)
(*   SpecStorage     the seedling/sapling/tree storage resolvers and read  *)
(*   SpecDisk        one sosar session: open, command, close               *)
(*   SpecParse       the reading of the directory tree, block by block     *)
(* Each specification drives its own variables and leaves the others at    *)
(* their idle values.                                                      *)
(***************************************************************************)
EXTENDS Integers, Sequences, FiniteSets, TLC

VARIABLES
    \* SpecInterleave
    ipc,        \* "start", "converted", "restored"
    ordA,       \* name of the source ordering
    ordB,       \* name of the destination ordering
    orig,       \* the buffer first given to reinterleave
    buf,        \* the buffer returned by the last reinterleave
    \* SpecBitmap
    bmData,     \* SOSAllocationBitmap.data, the bytes of the bitmap's blocks
    bmWritable, \* whether the buffer under the memoryview is a bytearray
    bmShadow,   \* for each block index, the value it is expected to hold
    bmResult,   \* the outcome of the last __getitem__ or __setitem__
    \* SpecStorage
    sVol,       \* the volume the resolvers are built over
    storage,    \* the SOSStorage object last constructed, or the error raised
    rd,         \* the last SOSStorage.read call and what it returned
    \* SpecDisk
    pc,         \* where the session of sosar.py stands
    image,      \* the image file's content
    fmt,        \* the format the image is opened with
    handle,     \* the image file object: open or not, close and write calls
    disk,       \* the SOSDisk object, once constructed
    err,        \* the exception that ended the session, or "none"
    last,       \* the last command run on the disk and what it produced
    \* SpecParse
    ppc,        \* where the reading of the directory tree stands
    pVol,       \* the volume the tree is read from
    pBuilt,     \* for each slot of each directory block, how building it ends
    pStack,     \* the SOSDirectory objects under construction, innermost last
    pErr        \* the exception that ended the reading, or "none"

ivars == <<ipc, ordA, ordB, orig, buf>>

bvars == <<bmData, bmWritable, bmShadow, bmResult>>

svars == <<sVol, storage, rd>>

dvars == <<pc, image, fmt, handle, disk, err, last>>

pvars == <<ppc, pVol, pBuilt, pStack, pErr>>

vars == <<ivars, bvars, svars, dvars, pvars>>

(***************************************************************************)
(* Python values.  A dict is a TLA+ function; a bytes object, bytearray or *)
(* memoryview is a Seq of 0..255 (index k of Python is element k+1).       *)
(***************************************************************************)
Min(a, b) == IF a < b THEN a ELSE b

Max(a, b) == IF a > b THEN a ELSE b

\* bytes(n), bytearray(n): n zero bytes
Zeros(n) == [k \in 1..n |-> 0]

\* s[lo:hi] for lo, hi >= 0: Python clamps both ends to len(s)
Slice(s, lo, hi) ==
    LET l == Min(lo, Len(s))
        h == Min(hi, Len(s))
    IN  IF h <= l THEN <<>> ELSE SubSeq(s, l + 1, h)

(***************************************************************************)
(* Sector interleaving                                                     *)
(***************************************************************************)
Tracks == 35

SectorsPerTrack == 16

list_to_dict(l) == [i \in 0..(Len(l) - 1) |-> l[i + 1]]

\* a reinterleave that composes with the destination table itself
invert_dict_forgotten(d) == d

invert_dict(d) ==
    LET vals == {d[k] : k \in DOMAIN d}
    IN  [v \in vals |-> CHOOSE k \in DOMAIN d : d[k] = v]

compose_dict(d1, d2) == [k \in DOMAIN d1 |-> d2[d1[k]]]

half_block_to_phys_sect ==
    list_to_dict(<<0, 2, 4, 6, 8, 10, 12, 14, 1, 3, 5, 7, 9, 11, 13, 15>>)

dos_to_phys_sect ==
    list_to_dict(<<0, 13, 11, 9, 7, 5, 3, 1, 14, 12, 10, 8, 6, 4, 2, 15>>)

identity == [k \in 0..15 |-> k]

FormatNames == {"dos", "do", "pascal", "phys", "po", "prodos", "sos"}

interleave_tables ==
    [n \in FormatNames |->
        CASE n = "dos"    -> dos_to_phys_sect
          [] n = "do"     -> dos_to_phys_sect
          [] n = "pascal" -> half_block_to_phys_sect
          [] n = "phys"   -> identity
          [] n = "po"     -> half_block_to_phys_sect
          [] n = "prodos" -> half_block_to_phys_sect
          [] n = "sos"    -> half_block_to_phys_sect]

(***************************************************************************)
(* An image handed to reinterleave is a Seq of 256-byte sectors: the code  *)
(* moves whole 256-byte slices at offsets that are multiples of 256, so a  *)
(* sector's content is one value here (0 is a sector of zero bytes).       *)
(***************************************************************************)
ZeroSector == 0

\* one pass of the loop body of reinterleave, for the k-th (t, ss) pair,
\* k = t * 16 + ss
reinterleave_body(src_image, map, dest_image, k) ==
    LET t  == k \div SectorsPerTrack
        ss == k % SectorsPerTrack
        src_sector  == t * 16 + ss
        dest_sector == t * 16 + map[ss]
    IN  [dest_image EXCEPT ![dest_sector + 1] = src_image[src_sector + 1]]

\* the passes lo .. hi-1 of the loop, in order; the range is split in halves
\* to keep the evaluation shallow
RECURSIVE reinterleave_loop(_, _, _, _, _)
reinterleave_loop(src_image, map, dest_image, lo, hi) ==
    IF lo >= hi THEN dest_image
    ELSE IF hi = lo + 1 THEN reinterleave_body(src_image, map, dest_image, lo)
    ELSE LET mid  == (lo + hi) \div 2
             half == reinterleave_loop(src_image, map, dest_image, lo, mid)
         IN  IF half = half   \* the first half is evaluated before the second
             THEN reinterleave_loop(src_image, map, half, mid, hi)
             ELSE half

reinterleave(src_image, src_interleave, dest_interleave) ==
    IF src_interleave = dest_interleave THEN src_image
    ELSE LET map == compose_dict(src_interleave, invert_dict(dest_interleave))
             dest_image == [k \in 1..Len(src_image) |-> ZeroSector]
         IN  reinterleave_loop(src_image, map, dest_image, 0, Tracks * SectorsPerTrack)

IdleInterleave ==
    /\ ipc = "idle"
    /\ ordA = "po"
    /\ ordB = "po"
    /\ orig = <<>>
    /\ buf = <<>>

\* the images the interleave machine starts from: sector p holds a content
\* computed from p; pattern 1 gives every sector of a track group its own
\* content, pattern 0 is the all-zero image
MaxPattern == 2

PatternMod == 251

PatternImage(k) ==
    [p \in 1..(Tracks * SectorsPerTrack) |-> ((p - 1) * k + k * k) % PatternMod]

InitInterleaveVars ==
    /\ ipc = "start"
    /\ ordA \in FormatNames
    /\ ordB \in FormatNames
    /\ \E k \in 0..MaxPattern : orig = PatternImage(k)
    /\ buf = orig

(***************************************************************************)
(* The allocation bitmap                                                   *)
(***************************************************************************)
RECURSIVE BitAnd(_, _)
BitAnd(a, b) ==
    IF a = 0 \/ b = 0 THEN 0
    ELSE (IF a % 2 = 1 /\ b % 2 = 1 THEN 1 ELSE 0) + 2 * BitAnd(a \div 2, b \div 2)

RECURSIVE BitOr(_, _)
BitOr(a, b) ==
    IF a = 0 THEN b
    ELSE IF b = 0 THEN a
    ELSE (IF a % 2 = 1 \/ b % 2 = 1 THEN 1 ELSE 0) + 2 * BitOr(a \div 2, b \div 2)

\* x >> n and x << n on naturals
ShiftRight(x, n) == x \div (2 ^ n)

ShiftLeft(x, n) == x * (2 ^ n)

\* x & ~m for a byte x: Python's ~m is -(m + 1), whose low eight bits are
\* those of 255 - m when m < 256
BitAndNot(x, m) == BitAnd(x, 255 - m)

\* a __getitem__ that numbers the bits of a byte from the most significant
bitmap_getitem_msb_first(data, key) ==
    IF ShiftRight(key, 3) >= Len(data)
    THEN [ok |-> FALSE, error |-> "IndexError"]
    ELSE [ok |-> TRUE,
          value |-> BitAnd(ShiftRight(data[ShiftRight(key, 3) + 1], 7 - BitAnd(key, 7)), 1) # 0]

\* SOSAllocationBitmap.__getitem__ for an integer key; data[key >> 3]
\* raises IndexError beyond the end of the data
bitmap_getitem(data, key) ==
    IF ShiftRight(key, 3) >= Len(data)
    THEN [ok |-> FALSE, error |-> "IndexError"]
    ELSE [ok |-> TRUE,
          value |-> BitAnd(ShiftRight(data[ShiftRight(key, 3) + 1], BitAnd(key, 7)), 1) # 0]

\* SOSAllocationBitmap.__setitem__ for an integer key: the byte is read
\* (IndexError), changed, and stored (TypeError through a read-only view)
bitmap_setitem(data, writable, key, value) ==
    IF ShiftRight(key, 3) >= Len(data)
    THEN [ok |-> FALSE, error |-> "IndexError", data |-> data]
    ELSE LET old == data[ShiftRight(key, 3) + 1]
             new == IF value THEN BitOr(old, ShiftLeft(1, BitAnd(key, 7)))
                             ELSE BitAndNot(old, ShiftLeft(1, BitAnd(key, 7)))
         IN  IF ~writable
             THEN [ok |-> FALSE, error |-> "TypeError", data |-> data]
             ELSE [ok |-> TRUE, error |-> "none",
                   data |-> [data EXCEPT ![ShiftRight(key, 3) + 1] = new]]

IdleBitmap ==
    /\ bmData = <<>>
    /\ bmWritable = FALSE
    /\ bmShadow = <<>>
    /\ bmResult = [op |-> "idle"]

\* the bitmap under test holds BitmapBytes bytes; the real one holds whole
\* blocks, and only its length differs
BitmapBytes == 2

\* a byte of the initial bitmap, written from the set of block indices in use
RECURSIVE BitmapByteOf(_, _, _)
BitmapByteOf(used, byte, bit) ==
    IF bit = 8 THEN 0
    ELSE (IF (8 * byte + bit) \in used THEN 2 ^ bit ELSE 0)
         + BitmapByteOf(used, byte, bit + 1)

BitmapImage(used) == [b \in 1..BitmapBytes |-> BitmapByteOf(used, b - 1, 0)]

\* block indices the operations are tried on; the last lies beyond the data
BitmapKeys ==
    {0, 1, 2, 5, 8 * BitmapBytes - 1, 8 * BitmapBytes}

InitialUsed ==
    { {}, {3, 7, 8}, 0..(8 * BitmapBytes - 1) }

InitBitmapVars ==
    /\ \E used \in InitialUsed :
          /\ bmData = BitmapImage(used)
          /\ bmShadow = [i \in 0..(8 * BitmapBytes - 1) |-> i \in used]
    /\ bmWritable \in BOOLEAN
    /\ bmResult = [op |-> "new"]

(***************************************************************************)
(* The block buffer.  A volume is written down block by block: a block is  *)
(* described by what it holds, and VolByte gives the byte the description  *)
(* stands for, so that SOSDisk.data is the Seq of VolByte over all offsets *)
(* of the volume.  Blocks without a description hold data bytes that       *)
(* differ from block to block.                                             *)
(***************************************************************************)
block_size == 512

DataByteOf(n, o) == (n * 29 + o * 3 + 1) % 256

\* an index block: 256 low bytes, then 256 high bytes, of the pointers
IndexByteOf(ptrs, o) ==
    LET j == o % 256
        p == IF j \in DOMAIN ptrs THEN ptrs[j] ELSE 0
    IN  IF o < 256 THEN p % 256 ELSE (p \div 256) % 256

BlockDesc(vol, n) ==
    IF n \in DOMAIN vol.special THEN vol.special[n] ELSE [kind |-> "data"]

VolByte(vol, pos) ==
    LET n == pos \div block_size
        o == pos % block_size
        d == BlockDesc(vol, n)
    IN  CASE d.kind = "data"  -> DataByteOf(n, o)
          [] d.kind = "index" -> IndexByteOf(d.ptrs, o)
          [] OTHER            -> 0

\* SOSDisk.get_blocks: a slice of the buffer, which Python clamps to the
\* buffer's length instead of raising
get_blocks(vol, first_block, count) ==
    LET offset == first_block * 512
        length == count * 512
        total  == vol.blocks * block_size
        lo     == Min(offset, total)
        hi     == Min(offset + length, total)
    IN  IF hi <= lo THEN <<>> ELSE [k \in 1..(hi - lo) |-> VolByte(vol, lo + k - 1)]

(***************************************************************************)
(* Storage resolvers                                                       *)
(***************************************************************************)
seedling == 1

sapling == 2

tree == 3

\* SOSStorage.__init__
storage_init(storage_type, key_pointer) ==
    [ok |-> TRUE, error |-> "none", storage_type |-> storage_type,
     key_pointer |-> key_pointer, index |-> <<>>,
     index_blocks |-> 0, data_blocks |-> 0, last_block_index |-> 0]

Raise(st, error) == [st EXCEPT !.ok = FALSE, !.error = error]

\* d[k] = v on a dict
DictSet(d, k, v) == [x \in (DOMAIN d) \cup {k} |-> IF x = k THEN v ELSE d[x]]

SOSSeedling(vol, key_pointer) ==
    LET st == storage_init(seedling, key_pointer)
    IN  [st EXCEPT !.index = DictSet(st.index, 0, key_pointer),
                   !.data_blocks = st.data_blocks + 1]

\* the 16-bit pointer in slot j of an index block
IndexPointer(index_data, j) ==
    index_data[j + 1] + ShiftLeft(index_data[j + 256 + 1], 8)

\* a pass that maps and counts the block but leaves last_block_index alone
sapling_body_keeps_last(index_data, j, st) ==
    IF ~st.ok THEN st
    ELSE IF j + 256 >= Len(index_data) THEN Raise(st, "IndexError")
    ELSE LET b == IndexPointer(index_data, j)
         IN  IF b # 0
             THEN [st EXCEPT !.index = DictSet(st.index, j, b),
                             !.data_blocks = st.data_blocks + 1]
             ELSE st

\* one pass of the loop of SOSSapling.__init__
sapling_body(index_data, j, st) ==
    IF ~st.ok THEN st
    ELSE IF j + 256 >= Len(index_data) THEN Raise(st, "IndexError")
    ELSE LET b == IndexPointer(index_data, j)
         IN  IF b # 0
             THEN [st EXCEPT !.index = DictSet(st.index, j, b),
                             !.data_blocks = st.data_blocks + 1,
                             !.last_block_index = j]
             ELSE st

\* the passes lo .. hi-1 of the loop, in order; a pass after an exception
\* does nothing
RECURSIVE sapling_loop(_, _, _, _)
sapling_loop(index_data, lo, hi, st) ==
    IF lo >= hi THEN st
    ELSE IF hi = lo + 1 THEN sapling_body(index_data, lo, st)
    ELSE LET mid  == (lo + hi) \div 2
             half == sapling_loop(index_data, lo, mid, st)
         IN  IF half = half THEN sapling_loop(index_data, mid, hi, half) ELSE half

SOSSapling(vol, key_pointer) ==
    LET st == storage_init(sapling, key_pointer)
        index_data == get_blocks(vol, key_pointer, 1)
    IN  sapling_loop(index_data, 0, 256, [st EXCEPT !.index_blocks = st.index_blocks + 1])

\* the local variable b of SOSTree.__init__ before its first assignment
Unbound == "unbound"

\* one pass of the inner loop of SOSTree.__init__; the local b is carried in
\* the record, as the outer loop reads it
tree_inner_body(index_data, i, j, st) ==
    IF ~st.ok THEN st
    ELSE IF j + 256 >= Len(index_data) THEN Raise(st, "IndexError")
    ELSE LET b == IndexPointer(index_data, j)
         IN  IF b # 0
             THEN [st EXCEPT !.b = b,
                             !.index = DictSet(st.index, j * 256 + i, b),
                             !.data_blocks = st.data_blocks + 1,
                             !.last_block_index = j]
             ELSE [st EXCEPT !.b = b]

RECURSIVE tree_inner_loop(_, _, _, _, _)
tree_inner_loop(index_data, i, lo, hi, st) ==
    IF lo >= hi THEN st
    ELSE IF hi = lo + 1 THEN tree_inner_body(index_data, i, lo, st)
    ELSE LET mid  == (lo + hi) \div 2
             half == tree_inner_loop(index_data, i, lo, mid, st)
         IN  IF half = half THEN tree_inner_loop(index_data, i, mid, hi, half) ELSE half

\* one pass of the outer loop of SOSTree.__init__: the secondary index block
\* is fetched with get_blocks(b), not get_blocks(tb)
tree_body(vol, top_index_data, i, st) ==
    IF ~st.ok THEN st
    ELSE IF i + 256 >= Len(top_index_data) THEN Raise(st, "IndexError")
    ELSE LET tb == IndexPointer(top_index_data, i)
         IN  IF tb # 0
             THEN IF st.b = Unbound THEN Raise(st, "UnboundLocalError")
                  ELSE tree_inner_loop(get_blocks(vol, st.b, 1), i, 0, 256,
                           [st EXCEPT !.index_blocks = st.index_blocks + 1])
             ELSE st

RECURSIVE tree_loop(_, _, _, _, _)
tree_loop(vol, top_index_data, lo, hi, st) ==
    IF lo >= hi THEN st
    ELSE IF hi = lo + 1 THEN tree_body(vol, top_index_data, lo, st)
    ELSE LET mid  == (lo + hi) \div 2
             half == tree_loop(vol, top_index_data, lo, mid, st)
         IN  IF half = half THEN tree_loop(vol, top_index_data, mid, hi, half) ELSE half

\* the object SOSTree.__init__ leaves, without the local b
TreeResult(st) ==
    [ok |-> st.ok, error |-> st.error, storage_type |-> st.storage_type,
     key_pointer |-> st.key_pointer, index |-> st.index,
     index_blocks |-> st.index_blocks, data_blocks |-> st.data_blocks,
     last_block_index |-> st.last_block_index]

SOSTree(vol, key_pointer) ==
    LET st == storage_init(tree, key_pointer)
        top_index_data == get_blocks(vol, key_pointer, 1)
        st1 == [ok |-> TRUE, error |-> "none", storage_type |-> tree,
                key_pointer |-> key_pointer, index |-> st.index,
                index_blocks |-> st.index_blocks + 1, data_blocks |-> st.data_blocks,
                last_block_index |-> st.last_block_index, b |-> Unbound]
    IN  TreeResult(tree_loop(vol, top_index_data, 0, 256, st1))

\* SOSStorage.create, for the three storage types it knows
SOSStorage_create(vol, storage_type, key_pointer) ==
    CASE storage_type = seedling -> SOSSeedling(vol, key_pointer)
      [] storage_type = sapling  -> SOSSapling(vol, key_pointer)
      [] storage_type = tree     -> SOSTree(vol, key_pointer)

is_sparse(st) == st.data_blocks # (st.last_block_index + 1)

\* data[lo:hi] = src on a bytearray: the slice is clamped to the bytearray,
\* and the bytearray grows or shrinks when src has another length
SliceAssign(data, lo, hi, src) ==
    LET l == Min(lo, Len(data))
        h == Max(l, Min(hi, Len(data)))
    IN  Slice(data, 0, l) \o src \o Slice(data, h, Len(data))

\* the loop of SOSStorage.read
RECURSIVE read_loop(_, _, _, _, _)
read_loop(vol, st, data, offset, length) ==
    IF ~(length > 0) THEN data
    ELSE LET block_index  == offset \div block_size
             block_offset == offset % block_size
             chunk_length == Min(length, block_size - block_offset)
             data1 ==
                 IF block_index \in DOMAIN st.index
                 THEN LET block_number == st.index[block_index]
                      IN  SliceAssign(data, offset, offset + chunk_length,
                              Slice(get_blocks(vol, block_number, 1),
                                    block_offset, block_offset + chunk_length))
                 ELSE data
         IN  read_loop(vol, st, data1, offset + chunk_length, length - chunk_length)

SOSStorage_read(vol, st, offset, length) ==
    read_loop(vol, st, Zeros(length), offset, length)

IdleStorage ==
    /\ sVol = [blocks |-> 0, special |-> <<>>]
    /\ storage = [ok |-> FALSE, error |-> "idle"]
    /\ rd = [op |-> "idle"]

\* the size of a 16-sector floppy image in blocks
FloppyBlocks == 280

\* index blocks the volumes of SpecStorage hold at block 3 ...
SaplingMaps ==
    { (0 :> 10 @@ 2 :> 11),
      (0 :> 10 @@ 1 :> 11),
      (0 :> 266 @@ 1 :> 12),
      (255 :> 12),
      (1 :> 300),
      <<>> }

\* ... and master index blocks they hold at block 4
MasterMaps ==
    { <<>>, (0 :> 5), (1 :> 5 @@ 2 :> 7) }

StorageVolume(smap, mmap) ==
    [blocks  |-> FloppyBlocks,
     special |-> (3 :> [kind |-> "index", ptrs |-> smap]
               @@ 4 :> [kind |-> "index", ptrs |-> mmap]
               @@ 5 :> [kind |-> "index", ptrs |-> (0 :> 10 @@ 1 :> 11)]
               @@ 6 :> [kind |-> "zero"]
               @@ 7 :> [kind |-> "index", ptrs |-> (3 :> 12)])]

InitStorageVars ==
    /\ \E smap \in SaplingMaps, mmap \in MasterMaps : sVol = StorageVolume(smap, mmap)
    /\ storage = [ok |-> FALSE, error |-> "none"]   \* nothing constructed yet
    /\ rd = [op |-> "none"]

\* key pointers the resolvers are built from; 300 lies beyond the volume
KeyPointers == {3, 4, 6, 10, 266, 300}

\* reads reach MaxReadBlock blocks into the file
MaxReadBlock == 2

ReadOffsets == {0, 256} \cup {block_size * k : k \in 1..MaxReadBlock}

ReadLengths == {0, 1, 600} \cup {block_size * k : k \in 1..(MaxReadBlock + 1)}

(***************************************************************************)
(* Directories.  A directory block of an image is written down as the      *)
(* fields struct.unpack gives for it: the two links and, for each of its   *)
(* slots, the fields of the entry.  A slot is written down as a header     *)
(* (rec = "header") where the code reads it as one and as a file entry     *)
(* elsewhere.  A filename is given as the lower-case text it decodes to,   *)
(* with name_ok telling whether bytes_to_sos_filename's assertions pass; a *)
(* timestamp is "absent" (0), "valid" or "invalid".                        *)
(***************************************************************************)
unused_entry == 0

pascal_area == 4

extended_file == 5

subdirectory == 13

subdirectory_header == 14

volume_directory_header == 15

\* the values of the enumeration StorageType
StorageTypes ==
    {unused_entry, seedling, sapling, tree, pascal_area, extended_file,
     subdirectory, subdirectory_header, volume_directory_header}

FileType_dir == 15

FileAttributes_sparse == 256

entry_length == 39

\* SOSDirectoryBlock.entry_count
entry_count == (block_size - 4) \div entry_length

UnusedRaw ==
    [rec |-> "file", storage_type |-> unused_entry, name |-> "", name_ok |-> FALSE,
     file_type |-> 0, key_pointer |-> 0, eof |-> 0, creation |-> "absent",
     version |-> 0, min_version |-> 0, access |-> 0]

\* a block of zero bytes read as a header: type 0, name length 0
ZeroHeaderRaw ==
    [rec |-> "header", storage_type |-> unused_entry, name |-> "", name_ok |-> FALSE,
     creation |-> "absent", version |-> 0, min_version |-> 0, access |-> 0,
     entry_length |-> 0, entries_per_block |-> 0, file_count |-> 0,
     bitmap_pointer |-> 0, total_blocks |-> 0]

\* what struct.unpack gives for block d read as a directory block, and for
\* its slot i read as a header or as a file entry; the images of SpecDisk
\* link directories to directory blocks and to blocks of zero bytes only
DirLinks(d) ==
    CASE d.kind = "dir"  -> [prev_block |-> d.prev_block, next_block |-> d.next_block]
      [] d.kind = "zero" -> [prev_block |-> 0, next_block |-> 0]

DirSlot(d, i, as_header) ==
    CASE d.kind = "dir"  -> d.entries[i + 1]
      [] d.kind = "zero" -> IF as_header THEN ZeroHeaderRaw ELSE UnusedRaw

Fail(error) == [ok |-> FALSE, error |-> error]

Done(obj) == [ok |-> TRUE, error |-> "none", obj |-> obj]

\* the assertions without the one on total_blocks
volume_header_asserts_any_size(e, block_count) ==
    /\ e.storage_type = volume_directory_header
    /\ e.version = 0
    /\ e.min_version = 0
    /\ e.entry_length = 39
    /\ e.entries_per_block = 13

\* the assertions of SOSVolumeDirectoryHeader.__init__ on the header's fields
volume_header_asserts(e, block_count) ==
    /\ e.storage_type = volume_directory_header
    /\ e.version = 0
    /\ e.min_version = 0
    /\ e.entry_length = 39
    /\ e.entries_per_block = 13
    /\ e.total_blocks = block_count

HeaderObject(cls, e) ==
    [cls |-> cls, storage_type |-> e.storage_type, name |-> e.name,
     creation |-> e.creation, version |-> e.version, min_version |-> e.min_version,
     access |-> e.access, entry_length |-> e.entry_length,
     entries_per_block |-> e.entries_per_block, file_count |-> e.file_count,
     bitmap_pointer |-> e.bitmap_pointer, total_blocks |-> e.total_blocks]

SOSVolumeDirectoryHeader(e, block_count) ==
    IF e.storage_type \notin StorageTypes THEN Fail("ValueError")
    ELSE IF ~e.name_ok THEN Fail("AssertionError")
    ELSE IF ~volume_header_asserts(e, block_count) THEN Fail("AssertionError")
    ELSE IF e.creation = "invalid" THEN Fail("AssertionError")
    ELSE Done(HeaderObject("SOSVolumeDirectoryHeader", e))

\* the assertions of SOSSubdirectoryHeader.__init__ on the header's fields
subdirectory_header_asserts(e) ==
    /\ e.storage_type = subdirectory_header
    /\ e.version = 0
    /\ e.min_version = 0
    /\ e.entry_length = 39
    /\ e.entries_per_block = 13

SOSSubdirectoryHeader(e) ==
    IF e.storage_type \notin StorageTypes THEN Fail("ValueError")
    ELSE IF ~e.name_ok THEN Fail("AssertionError")
    ELSE IF ~subdirectory_header_asserts(e) THEN Fail("AssertionError")
    ELSE IF e.creation = "invalid" THEN Fail("AssertionError")
    ELSE Done(HeaderObject("SOSSubdirectoryHeader", e))

NoDirectory == [directory_blocks |-> <<>>]

NoStorage == [ok |-> FALSE, error |-> "absent"]

\* the attributes of a SOSFileEntry; has_subdir and has_storage tell which
\* of the attributes subdir and storage the object has
FileObject(e, has_subdir, subdir, has_storage, st) ==
    [cls |-> "SOSFileEntry", storage_type |-> e.storage_type, name |-> e.name,
     file_type |-> e.file_type, key_pointer |-> e.key_pointer, eof |-> e.eof,
     creation |-> e.creation, access |-> e.access,
     has_subdir |-> has_subdir, subdir |-> subdir,
     has_storage |-> has_storage, storage |-> st]

\* an exception raised while r was computed propagates; otherwise the
\* computation goes on with the object r gave
Bind(r, F(_)) == IF r.ok THEN F(r.obj) ELSE Fail(r.error)

RECURSIVE SOSDirectory(_, _)
RECURSIVE SOSDirectoryBlock(_, _, _)
RECURSIVE read_entries(_, _, _, _, _)
RECURSIVE read_chain(_, _)
RECURSIVE SOSFileEntry(_, _)
RECURSIVE create_from_data(_, _, _, _, _)

\* the end of SOSFileEntry.__init__ for a file: self.storage is st
file_entry_with_storage(e, st) ==
    IF ~st.ok THEN Fail(st.error)
    ELSE Done(FileObject(e, FALSE, NoDirectory, TRUE, st))

SOSFileEntry(vol, e) ==
    IF e.storage_type \notin StorageTypes THEN Fail("ValueError")
    ELSE IF e.storage_type = unused_entry
    THEN Done(FileObject(e, FALSE, NoDirectory, FALSE, NoStorage))
    ELSE IF ~e.name_ok THEN Fail("AssertionError")
    ELSE IF e.creation = "invalid" THEN Fail("AssertionError")
    ELSE IF e.storage_type = subdirectory
    THEN IF e.file_type # FileType_dir THEN Fail("AssertionError")
         ELSE Bind(SOSDirectory(vol, e.key_pointer),
                   LAMBDA d : Done(FileObject(e, TRUE, d, FALSE, NoStorage)))
    ELSE IF e.storage_type \notin {seedling, sapling, tree} THEN Fail("AssertionError")
    ELSE IF e.file_type = FileType_dir THEN Fail("AssertionError")
    ELSE file_entry_with_storage(e, SOSStorage_create(vol, e.storage_type, e.key_pointer))

\* SOSDirectoryEntry.create_from_data
create_from_data(vol, d, i, block_num, first_dir_entry) ==
    IF first_dir_entry
    THEN IF block_num = 2
         THEN SOSVolumeDirectoryHeader(DirSlot(d, i, TRUE), vol.blocks)
         ELSE SOSSubdirectoryHeader(DirSlot(d, i, TRUE))
    ELSE SOSFileEntry(vol, DirSlot(d, i, FALSE))

\* the loop of SOSDirectoryBlock.__read_from_image from slot i on
read_entries(vol, d, block_num, first_dir_block, i) ==
    IF i = entry_count THEN Done(<<>>)
    ELSE Bind(create_from_data(vol, d, i, block_num, first_dir_block /\ (i = 0)),
              LAMBDA e :
                  Bind(read_entries(vol, d, block_num, first_dir_block, i + 1),
                       LAMBDA rest : Done(<<e>> \o rest)))

\* SOSDirectoryBlock.__init__ for a block read from the image; unpacking
\* the links from the empty view of a block beyond the image fails
SOSDirectoryBlock(vol, block_num, first_dir_block) ==
    IF Len(get_blocks(vol, block_num, 1)) < 4 THEN Fail("struct.error")
    ELSE Bind(read_entries(vol, BlockDesc(vol, block_num), block_num, first_dir_block, 0),
              LAMBDA entries :
                  Done([prev_block |-> DirLinks(BlockDesc(vol, block_num)).prev_block,
                        next_block |-> DirLinks(BlockDesc(vol, block_num)).next_block,
                        entries |-> entries]))

\* the while loop of SOSDirectory.__read_from_image
read_chain(vol, directory_blocks) ==
    IF directory_blocks[Len(directory_blocks)].next_block = 0
    THEN Done(directory_blocks)
    ELSE Bind(SOSDirectoryBlock(vol, directory_blocks[Len(directory_blocks)].next_block,
                                FALSE),
              LAMBDA b : read_chain(vol, Append(directory_blocks, b)))

\* SOSDirectory.__init__ for a directory read from the image
SOSDirectory(vol, first_block) ==
    Bind(SOSDirectoryBlock(vol, first_block, TRUE),
         LAMBDA b :
             Bind(read_chain(vol, <<b>>),
                  LAMBDA chain : Done([directory_blocks |-> chain,
                                       header |-> chain[1].entries[1]])))

(***************************************************************************)
(* Listing and enumeration.  A line of the listing is kept with the place  *)
(* of its entry: loc is the path of slot numbers (block of the chain times *)
(* entry_count, plus slot) from the volume directory down to the entry.    *)
(***************************************************************************)
attrchar == <<"r", "w", "2", "3", "4", "b", "n", "d", "s">>

\* the loop of SOSFileEntry.print over the bits b, b-1, ..., 0 of access:
\* the characters of attrs, one by one
RECURSIVE attrs_loop(_, _)
attrs_loop(access, b) ==
    IF b < 0 THEN <<>>
    ELSE <<(IF BitAnd(access, ShiftLeft(1, b)) # 0 THEN attrchar[b + 1] ELSE ".")>>
         \o attrs_loop(access, b - 1)

\* a print that leaves the access word as it is on disk
access_never_sparse(entry, long) == entry.access

\* the access word of an entry after SOSFileEntry.print has run
access_after_print(entry, long) ==
    IF /\ entry.storage_type # unused_entry
       /\ long
       /\ entry.storage_type # subdirectory
       /\ is_sparse(entry.storage)
    THEN BitOr(entry.access, FileAttributes_sparse)
    ELSE entry.access

RECURSIVE SOSDirectory_print(_, _, _, _, _)
RECURSIVE print_block(_, _, _, _, _, _, _)
RECURSIVE print_blocks(_, _, _, _, _, _)

\* an entry that lists its subdirectory before its own line
entry_print_subdir_first(entry, prefix, loc, pos, recursive, long) ==
    IF entry.cls # "SOSFileEntry" THEN <<>>
    ELSE IF entry.storage_type = unused_entry THEN <<>>
    ELSE (IF recursive /\ entry.storage_type = subdirectory
          THEN SOSDirectory_print(entry.subdir, prefix \o entry.name \o "/",
                                  Append(loc, pos), recursive, long)
          ELSE <<>>)
         \o <<[text |-> prefix \o entry.name, loc |-> Append(loc, pos), long |-> long,
               creation |-> IF long THEN entry.creation ELSE "",
               ft |-> IF long THEN entry.file_type ELSE 0,
               attrs |-> IF long THEN attrs_loop(access_after_print(entry, long), 8)
                         ELSE <<>>,
               eof |-> IF long THEN entry.eof ELSE 0]>>

\* SOSFileEntry.print and, for a header, SOSDirectoryEntry.print: the lines
\* the entry at place pos of its directory puts out
entry_print(entry, prefix, loc, pos, recursive, long) ==
    IF entry.cls # "SOSFileEntry" THEN <<>>
    ELSE IF entry.storage_type = unused_entry THEN <<>>
    ELSE LET line ==
                 [text |-> prefix \o entry.name, loc |-> Append(loc, pos), long |-> long,
                  creation |-> IF long THEN entry.creation ELSE "",
                  ft |-> IF long THEN entry.file_type ELSE 0,
                  attrs |-> IF long THEN attrs_loop(access_after_print(entry, long), 8)
                            ELSE <<>>,
                  eof |-> IF long THEN entry.eof ELSE 0]
         IN  <<line>> \o
             (IF recursive /\ entry.storage_type = subdirectory
              THEN SOSDirectory_print(entry.subdir, prefix \o entry.name \o "/",
                                      Append(loc, pos), recursive, long)
              ELSE <<>>)

\* the inner loop of SOSDirectory.print over the entries of block bi, from
\* entry ei on
print_block(dir, bi, ei, prefix, loc, recursive, long) ==
    IF ei > Len(dir.directory_blocks[bi].entries) THEN <<>>
    ELSE entry_print(dir.directory_blocks[bi].entries[ei], prefix, loc,
                     (bi - 1) * entry_count + (ei - 1), recursive, long)
         \o print_block(dir, bi, ei + 1, prefix, loc, recursive, long)

\* the outer loop of SOSDirectory.print, from block bi on
print_blocks(dir, bi, prefix, loc, recursive, long) ==
    IF bi > Len(dir.directory_blocks) THEN <<>>
    ELSE print_block(dir, bi, 1, prefix, loc, recursive, long)
         \o print_blocks(dir, bi + 1, prefix, loc, recursive, long)

SOSDirectory_print(dir, prefix, loc, recursive, long) ==
    print_blocks(dir, 1, prefix, loc, recursive, long)

\* the directory after SOSDirectory.print: a long listing sets the sparse
\* bit in the access word of the entries it prints
RECURSIVE directory_after_print(_, _, _)
directory_after_print(dir, recursive, long) ==
    [dir EXCEPT !.directory_blocks =
        [bi \in 1..Len(dir.directory_blocks) |->
            [dir.directory_blocks[bi] EXCEPT !.entries =
                [ei \in 1..Len(dir.directory_blocks[bi].entries) |->
                    LET entry == dir.directory_blocks[bi].entries[ei]
                    IN  IF entry.cls # "SOSFileEntry" THEN entry
                        ELSE IF entry.storage_type = unused_entry THEN entry
                        ELSE IF recursive /\ entry.storage_type = subdirectory
                        THEN [entry EXCEPT !.subdir =
                                 directory_after_print(entry.subdir, recursive, long)]
                        ELSE [entry EXCEPT !.access = access_after_print(entry, long)]]]]]

\* the inner loop of SOSDirectory.files over the entries of block bi, from
\* entry ei on: the entries it yields, each with its place
RECURSIVE files_block(_, _, _)
files_block(dir, bi, ei) ==
    IF ei > Len(dir.directory_blocks[bi].entries) THEN <<>>
    ELSE LET entry == dir.directory_blocks[bi].entries[ei]
         IN  (IF /\ entry.cls = "SOSFileEntry"
                 /\ entry.storage_type # unused_entry
                 /\ entry.has_storage
              THEN <<[loc |-> <<(bi - 1) * entry_count + (ei - 1)>>, entry |-> entry]>>
              ELSE <<>>)
             \o files_block(dir, bi, ei + 1)

RECURSIVE files_blocks(_, _)
files_blocks(dir, bi) ==
    IF bi > Len(dir.directory_blocks) THEN <<>>
    ELSE files_block(dir, bi, 1) \o files_blocks(dir, bi + 1)

\* SOSDirectory.files: path and recursive are not looked at
SOSDirectory_files(dir, path, recursive) == files_blocks(dir, 1)

\* SOSDisk.files
SOSDisk_files(d, path, recursive) == SOSDirectory_files(d.volume_directory, path, recursive)

(***************************************************************************)
(* The disk                                                                *)
(***************************************************************************)
\* SOSAllocationBitmap.__init__ for an existing image
SOSAllocationBitmap(vol, start_block, bitmap_block_count) ==
    [start_block |-> start_block, bitmap_block_count |-> bitmap_block_count,
     data |-> get_blocks(vol, start_block, bitmap_block_count)]

\* SOSDisk.bitmap_block_count as __read_image_file computes it
bitmap_blocks_for(total_blocks) == (total_blocks + 1) \div (block_size * 8)

\* SOSDisk.__init__ with new = False, on the content img of the image file.
\* img.extra is the number of bytes after the last whole block.  The volume
\* img describes is the one in SOS/ProDOS order, which is what reinterleave
\* leaves in self.data for an image opened with its own format.
ImageLength(img) == img.blocks * block_size + img.extra

\* a disk that is flagged dirty when it is read
disk_object_dirty(vol, volume_directory) ==
    LET bitmap_block_count == bitmap_blocks_for(volume_directory.header.total_blocks)
        bitmap_start_block == volume_directory.header.bitmap_pointer
    IN  [data |-> vol,
         dirty |-> TRUE,
         block_count |-> vol.blocks,
         volume_directory |-> volume_directory,
         bitmap_block_count |-> bitmap_block_count,
         bitmap_start_block |-> bitmap_start_block,
         allocation_bitmap |->
             SOSAllocationBitmap(vol, bitmap_start_block, bitmap_block_count)]

\* the attributes __read_image_file sets once the volume directory is read
disk_object(vol, volume_directory) ==
    LET bitmap_block_count == bitmap_blocks_for(volume_directory.header.total_blocks)
        bitmap_start_block == volume_directory.header.bitmap_pointer
    IN  [data |-> vol,
         dirty |-> FALSE,
         block_count |-> vol.blocks,
         volume_directory |-> volume_directory,
         bitmap_block_count |-> bitmap_block_count,
         bitmap_start_block |-> bitmap_start_block,
         allocation_bitmap |->
             SOSAllocationBitmap(vol, bitmap_start_block, bitmap_block_count)]

volume_of(img) == [blocks |-> ImageLength(img) \div block_size, special |-> img.special]

SOSDisk(img, format) ==
    IF ImageLength(img) % block_size # 0 THEN Fail("SystemExit")
    ELSE IF format # "po" /\ ImageLength(img) # 35 * 8 * block_size
    THEN Fail("SystemExit")
    ELSE Bind(SOSDirectory(volume_of(img), 2),
              LAMBDA volume_directory : Done(disk_object(volume_of(img), volume_directory)))

(***************************************************************************)
(* The images of SpecDisk.  Every directory has nchain blocks; the volume  *)
(* directory holds a file, a chain of depth nested subdirectories and an   *)
(* entry that varies (choice); block 8 is the index block of a sparse      *)
(* sapling, block 9 a master index block naming it, block 6 holds zeros.   *)
(***************************************************************************)
MaxChain == 2

MaxDepth == 2

FileRaw(storage_type, name, file_type, key_pointer, eof, access) ==
    [rec |-> "file", storage_type |-> storage_type, name |-> name, name_ok |-> TRUE,
     file_type |-> file_type, key_pointer |-> key_pointer, eof |-> eof,
     creation |-> "valid", version |-> 0, min_version |-> 0, access |-> access]

HeaderRaw(storage_type, name, total_blocks) ==
    [rec |-> "header", storage_type |-> storage_type, name |-> name, name_ok |-> TRUE,
     creation |-> "valid", version |-> 0, min_version |-> 0, access |-> 195,
     entry_length |-> 39, entries_per_block |-> 13, file_count |-> 0,
     bitmap_pointer |-> 6, total_blocks |-> total_blocks]

\* a directory block with the given entries in the given slots and unused
\* entries in the others
DirBlockRaw(prev_block, next_block, slots) ==
    [kind |-> "dir", prev_block |-> prev_block, next_block |-> next_block,
     entries |-> [i \in 1..entry_count |->
                     IF (i - 1) \in DOMAIN slots THEN slots[i - 1] ELSE UnusedRaw]]

Choices ==
    {"seedling", "sapling", "tree_empty", "tree", "unused", "bad_name", "bad_time",
     "pascal", "bad_type", "dir_as_file", "subdir_not_dir", "seedling_beyond",
     "sapling_beyond", "subdir_beyond", "subdir_zero"}

ChoiceRaw(choice) ==
    CASE choice = "seedling"        -> FileRaw(seedling, "b", 4, 11, 512, 227)
      [] choice = "sapling"         -> FileRaw(sapling, "b", 4, 8, 1536, 33)
      [] choice = "tree_empty"      -> FileRaw(tree, "b", 4, 6, 0, 195)
      [] choice = "tree"            -> FileRaw(tree, "b", 4, 9, 1024, 195)
      [] choice = "unused"          -> UnusedRaw
      [] choice = "bad_name"        -> [FileRaw(seedling, "b", 4, 11, 512, 195)
                                           EXCEPT !.name_ok = FALSE]
      [] choice = "bad_time"        -> [FileRaw(seedling, "b", 4, 11, 512, 195)
                                           EXCEPT !.creation = "invalid"]
      [] choice = "pascal"          -> FileRaw(pascal_area, "b", 4, 11, 512, 195)
      [] choice = "bad_type"        -> FileRaw(6, "b", 4, 11, 512, 195)
      [] choice = "dir_as_file"     -> FileRaw(seedling, "b", FileType_dir, 11, 512, 195)
      [] choice = "subdir_not_dir"  -> FileRaw(subdirectory, "b", 4, 6, 512, 195)
      [] choice = "seedling_beyond" -> FileRaw(seedling, "b", 4, 300, 512, 195)
      [] choice = "sapling_beyond"  -> FileRaw(sapling, "b", 4, 300, 512, 195)
      [] choice = "subdir_beyond"   -> FileRaw(subdirectory, "b", FileType_dir, 300, 512, 195)
      [] choice = "subdir_zero"     -> FileRaw(subdirectory, "b", FileType_dir, 6, 512, 195)

\* block r (0 ..) of the chain of the directory at depth d (0 is the volume
\* directory)
DirBlockNum(d, r) == IF d = 0 THEN 2 + r ELSE 20 + 4 * (d - 1) + r

DirName(d) == "s" \o ToString(d)

\* the slots of block r of the directory at depth d
DirSlots(d, r, depth, choice, header) ==
    IF r = 0
    THEN (0 :> (IF d = 0 THEN header
                ELSE HeaderRaw(subdirectory_header, DirName(d), 0))
          @@ 1 :> FileRaw(seedling, "a" \o ToString(d), 4, 10, 600, 195)
          @@ 2 :> (IF d < depth
                   THEN FileRaw(subdirectory, DirName(d + 1), FileType_dir,
                                DirBlockNum(d + 1, 0), 512, 195)
                   ELSE UnusedRaw)
          @@ 4 :> (IF d = 0 THEN ChoiceRaw(choice)
                   ELSE FileRaw(sapling, "g" \o ToString(d), 6, 8, 1536, 33)))
    ELSE (0 :> FileRaw(seedling, "c" \o ToString(d) \o ToString(r), 4, 11, 100, 215)
          @@ 12 :> FileRaw(seedling, "z" \o ToString(d) \o ToString(r), 255, 10, 512, 9))

DirBlocks(depth, nchain, choice, header) ==
    [n \in {DirBlockNum(d, r) : d \in 0..depth, r \in 0..(nchain - 1)} |->
        LET dr == CHOOSE dr \in (0..depth) \X (0..(nchain - 1)) :
                      DirBlockNum(dr[1], dr[2]) = n
            d  == dr[1]
            r  == dr[2]
        IN  DirBlockRaw(IF r = 0 THEN 0 ELSE DirBlockNum(d, r - 1),
                        IF r = nchain - 1 THEN 0 ELSE DirBlockNum(d, r + 1),
                        DirSlots(d, r, depth, choice, header))]

Image(blocks, extra, depth, nchain, choice, header) ==
    [blocks  |-> blocks,
     extra   |-> extra,
     special |-> DirBlocks(depth, nchain, choice, header)
                 @@ 6 :> [kind |-> "zero"]
                 @@ 8 :> [kind |-> "index", ptrs |-> (0 :> 10 @@ 2 :> 11)]
                 @@ 9 :> [kind |-> "index", ptrs |-> (0 :> 8)]]

GoodHeader(blocks) == HeaderRaw(volume_directory_header, "vol", blocks)

\* volume headers with any of the five checked fields right or wrong
HeaderVariants(blocks) ==
    {[GoodHeader(blocks) EXCEPT !.version = v, !.min_version = mv,
                                !.entry_length = el, !.entries_per_block = epb,
                                !.total_blocks = tb] :
        v \in {0, 1}, mv \in {0, 1}, el \in {39, 40}, epb \in {13, 12},
        tb \in {blocks, blocks + 1, 16}}

\* volume headers wrong in another way
OtherHeaders(blocks) ==
    {[GoodHeader(blocks) EXCEPT !.storage_type = subdirectory_header],
     [GoodHeader(blocks) EXCEPT !.storage_type = 7],
     [GoodHeader(blocks) EXCEPT !.name_ok = FALSE],
     [GoodHeader(blocks) EXCEPT !.creation = "invalid"],
     [GoodHeader(blocks) EXCEPT !.creation = "absent"]}

Images ==
    {Image(FloppyBlocks, 0, 1, MaxChain, "sapling", h) :
        h \in HeaderVariants(FloppyBlocks) \cup OtherHeaders(FloppyBlocks)}
    \cup {Image(blocks, extra, 0, 1, "seedling", GoodHeader(blocks)) :
             blocks \in {16, FloppyBlocks, 4096}, extra \in {0, 100}}
    \cup {Image(FloppyBlocks, 0, depth, nchain, choice, GoodHeader(FloppyBlocks)) :
             depth \in 0..MaxDepth, nchain \in 1..MaxChain, choice \in Choices}

NoDisk == [data |-> "None"]

IdleDisk ==
    /\ pc = "idle"
    /\ image = [blocks |-> 0, extra |-> 0, special |-> <<>>]
    /\ fmt = "po"
    /\ handle = [open |-> FALSE, closes |-> 0, writes |-> 0]
    /\ disk = NoDisk
    /\ err = "none"
    /\ last = [cmd |-> "none"]

InitDiskVars ==
    /\ pc = "start"
    /\ image \in Images
    /\ fmt \in {"do", "po"}
    /\ handle = [open |-> FALSE, closes |-> 0, writes |-> 0]
    /\ disk = NoDisk
    /\ err = "none"
    /\ last = [cmd |-> "none"]

IdleParse ==
    /\ ppc = "idle"
    /\ pVol = [blocks |-> 0, special |-> <<>>]
    /\ pBuilt = <<>>
    /\ pStack = <<>>
    /\ pErr = "none"

(***************************************************************************)
(* SpecInterleave: an image is converted from ordering A to ordering B and *)
(* back.                                                                   *)
(***************************************************************************)
Convert ==
    /\ ipc = "start"
    /\ buf' = reinterleave(buf, interleave_tables[ordA], interleave_tables[ordB])
    /\ ipc' = "converted"
    /\ UNCHANGED <<ordA, ordB, orig>>
    /\ UNCHANGED <<bvars, svars, dvars, pvars>>

Restore ==
    /\ ipc = "converted"
    /\ buf' = reinterleave(buf, interleave_tables[ordB], interleave_tables[ordA])
    /\ ipc' = "restored"
    /\ UNCHANGED <<ordA, ordB, orig>>
    /\ UNCHANGED <<bvars, svars, dvars, pvars>>

InitInterleave == InitInterleaveVars /\ IdleBitmap /\ IdleStorage /\ IdleDisk /\ IdleParse

NextInterleave ==
    \/ Convert
    \/ Restore

SpecInterleave == InitInterleave /\ [][NextInterleave]_vars

(***************************************************************************)
(* SpecBitmap: single-index reads and writes of an allocation bitmap.      *)
(***************************************************************************)
BitmapGet(key) ==
    /\ bmResult' = [op |-> "get", key |-> key, r |-> bitmap_getitem(bmData, key)]
    /\ UNCHANGED <<bmData, bmWritable, bmShadow>>
    /\ UNCHANGED <<ivars, svars, dvars, pvars>>

BitmapSet(key, value) ==
    LET r == bitmap_setitem(bmData, bmWritable, key, value)
    IN  /\ bmData' = r.data
        /\ bmShadow' = IF r.ok THEN [bmShadow EXCEPT ![key] = value] ELSE bmShadow
        /\ bmResult' = [op |-> "set", key |-> key, value |-> value,
                        r |-> [ok |-> r.ok, error |-> r.error]]
        /\ UNCHANGED bmWritable
        /\ UNCHANGED <<ivars, svars, dvars, pvars>>

InitBitmap == IdleInterleave /\ InitBitmapVars /\ IdleStorage /\ IdleDisk /\ IdleParse

NextBitmap ==
    \/ \E key \in BitmapKeys : BitmapGet(key)
    \/ \E key \in BitmapKeys, value \in BOOLEAN : BitmapSet(key, value)

SpecBitmap == InitBitmap /\ [][NextBitmap]_vars

(***************************************************************************)
(* SpecStorage: a resolver is built over a volume and read once (a read    *)
(* changes nothing, so a second read would see what the first saw).        *)
(***************************************************************************)
CreateStorage(storage_type, key_pointer) ==
    /\ storage.error = "none"
    /\ ~storage.ok
    /\ storage' = SOSStorage_create(sVol, storage_type, key_pointer)
    /\ rd' = [op |-> "none"]
    /\ UNCHANGED sVol
    /\ UNCHANGED <<ivars, bvars, dvars, pvars>>

ReadStorage(offset, length) ==
    /\ storage.ok
    /\ rd.op = "none"
    /\ rd' = [op |-> "read", offset |-> offset, length |-> length,
              data |-> SOSStorage_read(sVol, storage, offset, length)]
    /\ UNCHANGED <<sVol, storage>>
    /\ UNCHANGED <<ivars, bvars, dvars, pvars>>

\* SOSDisk.get_blocks called with a block number and a count: the method
\* slices a memoryview and has no path that raises
GetBlocks(first_block, count) ==
    /\ rd.op = "none"
    /\ rd' = [op |-> "get_blocks", first_block |-> first_block, count |-> count,
              raised |-> FALSE, view |-> get_blocks(sVol, first_block, count)]
    /\ UNCHANGED <<sVol, storage>>
    /\ UNCHANGED <<ivars, bvars, dvars, pvars>>

\* block numbers get_blocks is called with: inside the volume, its last block,
\* and beyond it
GetFirstBlocks == {0, 10, FloppyBlocks - 1, FloppyBlocks, 300}

GetCounts == 0..MaxReadBlock

InitStorage == IdleInterleave /\ IdleBitmap /\ InitStorageVars /\ IdleDisk /\ IdleParse

NextStorage ==
    \/ \E t \in {seedling, sapling, tree}, kp \in KeyPointers : CreateStorage(t, kp)
    \/ \E offset \in ReadOffsets, length \in ReadLengths : ReadStorage(offset, length)
    \/ \E first_block \in GetFirstBlocks, count \in GetCounts : GetBlocks(first_block, count)

SpecStorage == InitStorage /\ [][NextStorage]_vars

(***************************************************************************)
(* SpecDisk: a session of sosar.py on an image file: the file is opened,   *)
(* the disk constructed, commands run on it, and the disk closed.  An      *)
(* exception or exit that leaves a step ends the program where it stands.  *)
(***************************************************************************)
\* sosar.py: image = open(args.image, file_mode)
OpenFile ==
    /\ pc = "start"
    /\ handle' = [handle EXCEPT !.open = TRUE]
    /\ pc' = "file_open"
    /\ UNCHANGED <<image, fmt, disk, err, last>>
    /\ UNCHANGED <<ivars, bvars, svars, pvars>>

\* sosar.py: disk = SOSDisk(image, fmt)
Construct ==
    /\ pc = "file_open"
    /\ \E r \in {SOSDisk(image, fmt)} :
           IF r.ok
           THEN /\ disk' = r.obj
                /\ pc' = "ready"
                /\ err' = err
           ELSE /\ disk' = disk
                /\ pc' = "failed"
                /\ err' = r.error
    /\ UNCHANGED <<image, fmt, handle, last>>
    /\ UNCHANGED <<ivars, bvars, svars, pvars>>

\* cmd_ls: SOSDisk.print_directory
ListDirectory(recursive, long) ==
    /\ pc = "ready"
    /\ last' = [cmd |-> "ls", recursive |-> recursive, long |-> long,
                title |-> "volume /" \o disk.volume_directory.header.name \o ":",
                out |-> SOSDirectory_print(disk.volume_directory, "", <<>>,
                                           recursive, long)]
    /\ disk' = [disk EXCEPT !.volume_directory =
                   directory_after_print(disk.volume_directory, recursive, long)]
    /\ UNCHANGED <<pc, image, fmt, handle, err>>
    /\ UNCHANGED <<ivars, bvars, svars, pvars>>

\* a full iteration of disk.files(path = '', recursive = True)
EnumerateFiles ==
    /\ pc = "ready"
    /\ LET files == SOSDisk_files(disk, "", TRUE)
       IN  last' = [cmd |-> "files",
                    yielded |-> [k \in 1..Len(files) |->
                                    [loc |-> files[k].loc, name |-> files[k].entry.name]]]
    /\ UNCHANGED <<pc, image, fmt, handle, disk, err>>
    /\ UNCHANGED <<ivars, bvars, svars, pvars>>

\* cmd_extract: the first file yielded is read and written to the host; the
\* host may refuse the file (host_ok)
Extract(host_ok) ==
    /\ pc = "ready"
    /\ LET files == SOSDisk_files(disk, "", TRUE)
       IN  IF files = <<>>
           THEN /\ last' = [cmd |-> "x", written |-> <<>>]
                /\ UNCHANGED <<pc, err>>
           ELSE LET sf == files[1].entry
                    data == SOSStorage_read(disk.data, sf.storage, 0, sf.eof)
                IN  IF host_ok
                    THEN /\ last' = [cmd |-> "x",
                                     written |-> <<[name |-> sf.name, data |-> data]>>]
                         /\ UNCHANGED <<pc, err>>
                    ELSE /\ last' = [cmd |-> "x", written |-> <<>>]
                         /\ pc' = "failed"
                         /\ err' = "OSError"
    /\ UNCHANGED <<image, fmt, handle, disk>>
    /\ UNCHANGED <<ivars, bvars, svars, pvars>>

\* sosar.py: disk.close()
Close ==
    /\ pc = "ready"
    /\ handle' = [open |-> FALSE,
                  closes |-> handle.closes + 1,
                  writes |-> IF disk.dirty THEN handle.writes + 1 ELSE handle.writes]
    /\ disk' = [disk EXCEPT !.data = "None"]
    /\ pc' = "closed"
    /\ UNCHANGED <<image, fmt, err, last>>
    /\ UNCHANGED <<ivars, bvars, svars, pvars>>

InitDisk == IdleInterleave /\ IdleBitmap /\ IdleStorage /\ InitDiskVars /\ IdleParse

NextDisk ==
    \/ OpenFile
    \/ Construct
    \/ \E recursive \in BOOLEAN, long \in BOOLEAN : ListDirectory(recursive, long)
    \/ EnumerateFiles
    \/ \E host_ok \in BOOLEAN : Extract(host_ok)
    \/ Close

SpecDisk == InitDisk /\ [][NextDisk]_vars

(***************************************************************************)
(* SpecParse: the reading of the directory tree by SOSDisk.__init__, one   *)
(* step per directory entry and per directory block.  pStack holds one     *)
(* frame for each SOSDirectory.__init__ that has not returned: the block   *)
(* being read, whether it is the first of its chain, and the slot the loop *)
(* of SOSDirectoryBlock.__read_from_image stands at.  The blocks appended  *)
(* to directory_blocks are not kept: only the last one decides how the     *)
(* while loop goes on.                                                     *)
(***************************************************************************)
\* the nesting of SOSDirectory.__init__ calls at which the interpreter
\* raises RecursionError
RecursionLimit == MaxDepth + 2

Frame(block_num, first_dir_block) ==
    [block |-> block_num, first |-> first_dir_block, slot |-> 0]

WithNextBlock(vol, b, n) == [vol EXCEPT !.special[b].next_block = n]

WithSubdirectory(vol, b, key_pointer) ==
    [vol EXCEPT !.special[b].entries[3] =
        FileRaw(subdirectory, "up", FileType_dir, key_pointer, 512, 195)]

\* a volume with the directories /, blocks 2 and 3, and /s1, blocks 20 and 21
TwoChains == volume_of(Image(FloppyBlocks, 0, 1, 2, "sapling", GoodHeader(FloppyBlocks)))

\* volumes whose links are damaged: the last block of a chain goes on to a
\* block of its own or of the other chain, or an entry of /s1 names a block
\* of / or of /s1 as its subdirectory
DamagedVolumes ==
    {WithNextBlock(TwoChains, b, n) : b \in {3, 21}, n \in {2, 3, 20, 21}}
    \cup {WithSubdirectory(TwoChains, 20, k) : k \in {2, 3, 20, 21}}

ParseVolumes ==
    {volume_of(img) : img \in {i \in Images : i.extra = 0}} \cup DamagedVolumes

\* whether the entry is one for which SOSFileEntry.__init__ gets as far as
\* calling SOSDirectory
CallsSOSDirectory(e) ==
    /\ e.storage_type = subdirectory
    /\ e.name_ok
    /\ e.creation # "invalid"
    /\ e.file_type = FileType_dir

\* how SOSDirectoryEntry.create_from_data ends for each slot of each block
\* that is read as a directory block, as a header (slot 0 of a first block)
\* and as a file entry: the volume does not change while it is read, so this
\* is worked out once.  A subdirectory entry is left to EnterSubdirectory.
EntriesBuilt(vol) ==
    [x \in {y \in {b \in DOMAIN vol.special : vol.special[b].kind \in {"dir", "zero"}}
                   \X (0..(entry_count - 1)) \X BOOLEAN : y[3] => y[2] = 0} |->
        IF ~x[3] /\ CallsSOSDirectory(DirSlot(BlockDesc(vol, x[1]), x[2], FALSE))
        THEN [ok |-> TRUE, error |-> "none"]
        ELSE LET r == create_from_data(vol, BlockDesc(vol, x[1]), x[2], x[1], x[3])
             IN  [ok |-> r.ok, error |-> r.error]]

InitParseVars ==
    /\ ppc = "start"
    /\ pVol \in ParseVolumes
    /\ pBuilt = EntriesBuilt(pVol)
    /\ pStack = <<>>
    /\ pErr = "none"

ParseFails(error) ==
    /\ ppc' = "failed"
    /\ pErr' = error
    /\ UNCHANGED <<pVol, pBuilt, pStack>>

\* SOSDirectoryBlock.__read_from_image up to its loop, for block block_num
\* put on the stack stack
EnterBlock(stack, block_num, first_dir_block) ==
    IF Len(get_blocks(pVol, block_num, 1)) < 4 THEN ParseFails("struct.error")
    ELSE /\ pStack' = Append(stack, Frame(block_num, first_dir_block))
         /\ UNCHANGED <<ppc, pVol, pBuilt, pErr>>

\* the slot of the innermost frame is done
NextSlot(stack) ==
    [stack EXCEPT ![Len(stack)].slot = stack[Len(stack)].slot + 1]

\* SOSDisk.__read_image_file: self.volume_directory = SOSDirectory(self, 2)
StartVolumeDirectory ==
    /\ ppc = "start"
    /\ IF Len(get_blocks(pVol, 2, 1)) < 4 THEN ParseFails("struct.error")
       ELSE /\ pStack' = <<Frame(2, TRUE)>>
            /\ ppc' = "reading"
            /\ UNCHANGED <<pVol, pBuilt, pErr>>
    /\ UNCHANGED <<ivars, bvars, svars, dvars>>

\* one pass of the loop of SOSDirectoryBlock.__read_from_image for an entry
\* that is built without reading another directory
ReadEntry ==
    /\ ppc = "reading"
    /\ LET top == pStack[Len(pStack)]
           d   == BlockDesc(pVol, top.block)
           hdr == top.first /\ top.slot = 0
       IN  /\ top.slot < entry_count
           /\ hdr \/ ~CallsSOSDirectory(DirSlot(d, top.slot, FALSE))
           /\ IF pBuilt[<<top.block, top.slot, hdr>>].ok
              THEN /\ pStack' = NextSlot(pStack)
                   /\ UNCHANGED <<ppc, pVol, pBuilt, pErr>>
              ELSE ParseFails(pBuilt[<<top.block, top.slot, hdr>>].error)
    /\ UNCHANGED <<ivars, bvars, svars, dvars>>

\* the pass for a subdirectory entry: SOSFileEntry.__init__ calls
\* SOSDirectory(disk, self.key_pointer)
EnterSubdirectory ==
    /\ ppc = "reading"
    /\ LET top == pStack[Len(pStack)]
           e   == DirSlot(BlockDesc(pVol, top.block), top.slot, FALSE)
       IN  /\ top.slot < entry_count
           /\ ~(top.first /\ top.slot = 0)
           /\ CallsSOSDirectory(e)
           /\ IF Len(pStack) >= RecursionLimit THEN ParseFails("RecursionError")
              ELSE EnterBlock(pStack, e.key_pointer, TRUE)
    /\ UNCHANGED <<ivars, bvars, svars, dvars>>

\* the while loop of SOSDirectory.__read_from_image goes on to next_block
FollowChain ==
    /\ ppc = "reading"
    /\ LET top == pStack[Len(pStack)]
           nb  == DirLinks(BlockDesc(pVol, top.block)).next_block
       IN  /\ top.slot = entry_count
           /\ nb # 0
           /\ EnterBlock(SubSeq(pStack, 1, Len(pStack) - 1), nb, FALSE)
    /\ UNCHANGED <<ivars, bvars, svars, dvars>>

\* the while loop ends and SOSDirectory.__init__ returns, to the entry that
\* called it or to SOSDisk.__read_image_file
FinishDirectory ==
    /\ ppc = "reading"
    /\ LET top == pStack[Len(pStack)]
       IN  /\ top.slot = entry_count
           /\ DirLinks(BlockDesc(pVol, top.block)).next_block = 0
           /\ IF Len(pStack) = 1
              THEN /\ pStack' = <<>>
                   /\ ppc' = "done"
              ELSE /\ pStack' = NextSlot(SubSeq(pStack, 1, Len(pStack) - 1))
                   /\ ppc' = ppc
    /\ UNCHANGED <<pVol, pBuilt, pErr>>
    /\ UNCHANGED <<ivars, bvars, svars, dvars>>

InitParse == IdleInterleave /\ IdleBitmap /\ IdleStorage /\ IdleDisk /\ InitParseVars

NextParse ==
    \/ StartVolumeDirectory
    \/ ReadEntry
    \/ EnterSubdirectory
    \/ FollowChain
    \/ FinishDirectory

\* the interpreter goes on running the program as long as it has a step
SpecParse == InitParse /\ [][NextParse]_vars /\ WF_vars(NextParse)

(***************************************************************************)
(* Claims                                                                  *)
(***************************************************************************)

\* C1: converting a 143,360-byte image from ordering A to ordering B and the
\* result back from B to A gives the image that was started from, for every
\* pair of named orderings.
InterleaveRoundTrip ==
    ipc = "restored" => buf = orig

\* a DOS-order image whose sectors all differ within a track was moved to
\* ProDOS order, which changed it, and back
InterleaveRoundTripWitness ==
    /\ ipc = "restored"
    /\ ordA = "do"
    /\ ordB = "po"
    /\ orig = PatternImage(1)
    /\ reinterleave(orig, interleave_tables["do"], interleave_tables["po"]) # orig

\* C2: a read returns exactly as many bytes as were asked for.
ReadLengthIsRequested ==
    rd.op = "read" => Len(rd.data) = rd.length

\* the byte the claim C3 expects at position k of read(offset, length)
ExpectedReadByte(vol, st, offset, k) ==
    LET block_index == (offset + k) \div block_size
    IN  IF block_index \in DOMAIN st.index
        THEN VolByte(vol, st.index[block_index] * block_size
                          + ((offset + k) % block_size))
        ELSE 0

MappedBlocksInVolume(vol, st) ==
    \A bi \in DOMAIN st.index : st.index[bi] < vol.blocks

\* C3: byte k of read(offset, length) is byte (offset+k) mod 512 of the block
\* mapped at logical index (offset+k) div 512, and 0 where nothing is mapped
\* (stated for resolvers whose mapped blocks all lie inside the volume).
ReadBytesAreMappedBytes ==
    (rd.op = "read" /\ MappedBlocksInVolume(sVol, storage)) =>
        \A k \in 0..(rd.length - 1) :
            /\ k < Len(rd.data)
            /\ rd.data[k + 1] = ExpectedReadByte(sVol, storage, rd.offset, k)

\* C8: get(i) is the value last set for i, or the bit of the initial bitmap
\* (byte i >> 3, bit i & 7 from the least significant) when i was never set;
\* a set on i leaves every other index as it was.
BitmapGetReturnsLastSet ==
    /\ \A i \in DOMAIN bmShadow :
          LET r == bitmap_getitem(bmData, i)
          IN  r.ok /\ r.value = bmShadow[i]
    /\ (bmResult.op = "get" /\ bmResult.r.ok) =>
          bmResult.r.value = bmShadow[bmResult.key]

\* exactly the indices 0, 1, 2 and 5 have come to be set, the last by a set
BitmapExampleWitness ==
    /\ bmResult.op = "set"
    /\ bmResult.r.ok
    /\ bmResult.value
    /\ {i \in DOMAIN bmShadow : bmShadow[i]} = {0, 1, 2, 5}
    /\ bmData[1] = 39
    /\ ~bitmap_getitem(bmData, 3).value
    /\ ~bitmap_getitem(bmData, 4).value

\* a master index block inside the volume whose non-zero slots all name index
\* blocks inside the volume
WellFormedTree(vol, key_pointer) ==
    /\ key_pointer < vol.blocks
    /\ BlockDesc(vol, key_pointer).kind = "index"
    /\ \A m \in DOMAIN BlockDesc(vol, key_pointer).ptrs :
          LET tb == BlockDesc(vol, key_pointer).ptrs[m]
          IN  tb # 0 => (tb < vol.blocks /\ BlockDesc(vol, tb).kind = "index")

\* the map the claim C9 expects: secondary slot s of master slot m at s*256 + m
ExpectedTreeIndex(vol, key_pointer) ==
    LET master == BlockDesc(vol, key_pointer).ptrs
        slots  == {ms \in (DOMAIN master) \X (0..255) :
                     /\ master[ms[1]] # 0
                     /\ ms[2] \in DOMAIN BlockDesc(vol, master[ms[1]]).ptrs
                     /\ BlockDesc(vol, master[ms[1]]).ptrs[ms[2]] # 0}
    IN  [x \in {ms[2] * 256 + ms[1] : ms \in slots} |->
            LET ms == CHOOSE ms \in slots : ms[2] * 256 + ms[1] = x
            IN  BlockDesc(vol, master[ms[1]]).ptrs[ms[2]]]

MaxOf(S) == IF S = {} THEN 0 ELSE CHOOSE x \in S : \A y \in S : y <= x

\* C9: a Tree resolver is constructed from every (well-formed) master index
\* block, maps s*256 + m to the pointer in slot s of the secondary block
\* named by master slot m, counts the mapped entries in data_blocks and has
\* the largest mapped index as last_block_index.
TreeMapsCombinedIndex ==
    IF storage.error = "idle" \/ (storage.error = "none" /\ ~storage.ok) THEN TRUE
    ELSE (storage.storage_type = tree /\ WellFormedTree(sVol, storage.key_pointer)) =>
            /\ storage.ok
            /\ storage.index = ExpectedTreeIndex(sVol, storage.key_pointer)
            /\ storage.data_blocks = Cardinality(DOMAIN storage.index)
            /\ storage.last_block_index = MaxOf(DOMAIN storage.index)

\* the header of the volume directory as it stands in the image file
RawVolumeHeader == image.special[2].entries[1]

\* the header fields C4 names, one of them wrong
HeaderRejected ==
    \/ RawVolumeHeader.total_blocks # ImageLength(image) \div block_size
    \/ RawVolumeHeader.version # 0
    \/ RawVolumeHeader.min_version # 0
    \/ RawVolumeHeader.entry_length # 39
    \/ RawVolumeHeader.entries_per_block # 13

\* C4: once construction has run on an image whose volume directory header
\* has total_blocks different from the image's block count, or version or
\* min_version not 0, or entry_length not 39, or entries_per_block not 13,
\* it has failed with an error and the caller holds no SOSDisk object.
BadHeaderFailsConstruction ==
    (pc \notin {"idle", "start", "file_open"} /\ HeaderRejected) =>
        /\ pc = "failed"
        /\ err = "AssertionError"
        /\ disk = NoDisk

\* construction failed on a header whose only fault is total_blocks
BadTotalBlocksWitness ==
    /\ pc = "failed"
    /\ disk = NoDisk
    /\ RawVolumeHeader = [GoodHeader(FloppyBlocks) EXCEPT !.total_blocks = FloppyBlocks + 1]
    /\ ImageLength(image) = FloppyBlocks * block_size

\* the active file entries with a storage resolver of the whole tree under
\* dir, depth first, each with its place
RECURSIVE TreeFiles(_, _, _, _)
TreeFiles(dir, loc, bi, ei) ==
    IF bi > Len(dir.directory_blocks) THEN <<>>
    ELSE IF ei > Len(dir.directory_blocks[bi].entries) THEN TreeFiles(dir, loc, bi + 1, 1)
    ELSE LET entry == dir.directory_blocks[bi].entries[ei]
             here  == Append(loc, (bi - 1) * entry_count + (ei - 1))
         IN  (IF entry.cls # "SOSFileEntry" \/ entry.storage_type = unused_entry THEN <<>>
              ELSE IF entry.has_storage THEN <<[loc |-> here, name |-> entry.name]>>
              ELSE IF entry.has_subdir THEN TreeFiles(entry.subdir, here, 1, 1)
              ELSE <<>>)
             \o TreeFiles(dir, loc, bi, ei + 1)

\* C5: files(path, recursive = True) yields, depth first, exactly the active
\* file entries with a storage resolver of the root directory and of every
\* nested subdirectory.
FilesYieldsWholeTree ==
    last.cmd = "files" => last.yielded = TreeFiles(disk.volume_directory, <<>>, 1, 1)

\* a comes before b when the entries are taken directory by directory in
\* chain and slot order, a subdirectory's entries right after its own
IsPrefix(a, b) == Len(a) <= Len(b) /\ \A j \in 1..Len(a) : a[j] = b[j]

ListedBefore(a, b) ==
    \/ IsPrefix(a, b) /\ Len(a) < Len(b)
    \/ \E i \in 1..Min(Len(a), Len(b)) :
          /\ \A j \in 1..(i - 1) : a[j] = b[j]
          /\ a[i] < b[i]

\* the active entries a listing of dir has to show, with the text of each
RECURSIVE ListedEntries(_, _, _, _)
ListedEntries(dir, prefix, loc, recursive) ==
    UNION {LET entry == dir.directory_blocks[bi].entries[ei]
               here  == Append(loc, (bi - 1) * entry_count + (ei - 1))
           IN  IF entry.cls # "SOSFileEntry" \/ entry.storage_type = unused_entry THEN {}
               ELSE {[loc |-> here, text |-> prefix \o entry.name]}
                    \cup (IF recursive /\ entry.has_subdir
                          THEN ListedEntries(entry.subdir, prefix \o entry.name \o "/",
                                             here, recursive)
                          ELSE {})
           : bi \in 1..Len(dir.directory_blocks), ei \in 1..entry_count}

\* C6: a listing shows the active entries, and nothing for a header or an
\* unused entry, in chain order of the blocks and slot order 0..12 within a
\* block; a recursive listing shows the entries of a subdirectory, named
\* prefix + name + "/" + their name, right after the subdirectory's line and
\* before the next slot of its parent.
ListingOrder ==
    last.cmd = "ls" =>
        /\ \A k \in 1..(Len(last.out) - 1) :
              ListedBefore(last.out[k].loc, last.out[k + 1].loc)
        /\ {[loc |-> last.out[k].loc, text |-> last.out[k].text] : k \in 1..Len(last.out)}
              = ListedEntries(disk.volume_directory, "", <<>>, last.recursive)

\* a recursive listing went from a subdirectory's line into the subdirectory,
\* through its second block, and back to a later slot of the parent
ListingOrderWitness ==
    /\ last.cmd = "ls"
    /\ last.recursive
    /\ \E k \in 1..Len(last.out), m \in 1..Len(last.out), n \in 1..Len(last.out) :
          /\ m = k + 1
          /\ n > m
          /\ Len(last.out[k].loc) = 1
          /\ Len(last.out[m].loc) = 2
          /\ IsPrefix(last.out[k].loc, last.out[m].loc)
          /\ last.out[m].text = last.out[k].text \o "/a1"
          /\ \E q \in (m + 1)..(n - 1) : /\ IsPrefix(last.out[k].loc, last.out[q].loc)
                                         /\ last.out[q].loc[2] >= entry_count
          /\ Len(last.out[n].loc) = 1
          /\ last.out[n].loc[1] > last.out[k].loc[1]

\* C7: when the program has ended, by a normal close or by an error after
\* the image file was opened, the file handle has been released exactly
\* once.
HandleReleasedOnce ==
    pc \in {"closed", "failed"} => (handle.closes = 1 /\ ~handle.open)

CeilDiv(a, b) == (a + b - 1) \div b

\* C10: the disk that was opened has loaded
\* ceil((total_blocks + 1) / (512 * 8)) bitmap blocks, which is at least
\* one block and holds a bit for every block of the volume.
BitmapBlocksAreCeiling ==
    pc = "ready" =>
        /\ disk.bitmap_block_count
              = CeilDiv(disk.volume_directory.header.total_blocks + 1, block_size * 8)
        /\ disk.bitmap_block_count >= 1
        /\ 8 * Len(disk.allocation_bitmap.data) >= disk.volume_directory.header.total_blocks

\* C11: get_blocks(first, count) gives a view of exactly count * 512 bytes,
\* the bytes of the volume from first * 512 on, when the range lies inside
\* the volume, and raises, giving no view, when part of the range lies
\* outside it.
GetBlocksChecksBounds ==
    rd.op = "get_blocks" =>
        IF (rd.first_block + rd.count) * block_size <= sVol.blocks * block_size
        THEN /\ ~rd.raised
             /\ Len(rd.view) = rd.count * block_size
             /\ \A k \in 1..Len(rd.view) :
                   rd.view[k] = VolByte(sVol, rd.first_block * block_size + k - 1)
        ELSE rd.raised

\* the entry at place loc of the tree under dir
RECURSIVE EntryAt(_, _)
EntryAt(dir, loc) ==
    LET entry == dir.directory_blocks[(loc[1] \div entry_count) + 1]
                    .entries[(loc[1] % entry_count) + 1]
    IN  IF Len(loc) = 1 THEN entry ELSE EntryAt(entry.subdir, Tail(loc))

\* the labels of the positions 0..8 of the permission string
PermissionLabels == <<"s", "d", "n", "b", "4", "3", "2", "w", "r">>

\* whether bit b of the access word of the entry is to be shown: bit 8 is
\* the sparse mark, the others are the bits read from the disk
AccessBitShown(entry, b) ==
    IF b = 8 THEN entry.has_storage /\ is_sparse(entry.storage)
    ELSE BitAnd(entry.access, ShiftLeft(1, b)) # 0

\* C12 as amended: in a long listing the permission string of every active
\* entry has 9 characters, position p showing the label of access bit 8 - p
\* when the bit is set and "." when it is not, the reserved bits 4, 3 and 2
\* included; bit 8 is shown exactly for a file whose resolver is sparse.
PermissionStringShowsEveryBit ==
    (last.cmd = "ls" /\ last.long) =>
        \A k \in 1..Len(last.out) :
            /\ Len(last.out[k].attrs) = 9
            /\ \A p \in 0..8 :
                  last.out[k].attrs[p + 1] =
                      IF AccessBitShown(EntryAt(disk.volume_directory, last.out[k].loc), 8 - p)
                      THEN PermissionLabels[p + 1] ELSE "."

\* a long listing showed a set reserved bit of one entry and the sparse mark
\* of another
PermissionStringWitness ==
    /\ last.cmd = "ls"
    /\ last.long
    /\ \E k \in 1..Len(last.out) : last.out[k].attrs = <<".", "d", "n", ".", "4", ".", "2", "w", "r">>
    /\ \E k \in 1..Len(last.out) : last.out[k].attrs[1] = "s"
    /\ \E k \in 1..Len(last.out) : last.out[k].attrs[1] = "."

\* C12 as stated: the same, except that the positions of the reserved bits
\* 4, 3 and 2 show "." whatever the access byte holds.
PermissionStringHidesReservedBits ==
    (last.cmd = "ls" /\ last.long) =>
        \A k \in 1..Len(last.out) :
            /\ Len(last.out[k].attrs) = 9
            /\ \A p \in 0..8 :
                  last.out[k].attrs[p + 1] =
                      IF /\ (8 - p) \notin {2, 3, 4}
                         /\ AccessBitShown(EntryAt(disk.volume_directory, last.out[k].loc), 8 - p)
                      THEN PermissionLabels[p + 1] ELSE "."

\* C13: the reading of the directory tree of an image of whole blocks comes
\* to an end, with the disk constructed or with an error, also when a
\* next_block link leads back into its chain or a subdirectory entry names
\* a block of an ancestor directory.
ParsingTerminates ==
    <>(ppc \in {"done", "failed"})

\* a Seedling or a Sapling has been built
FlatResolverBuilt ==
    /\ storage.ok
    /\ storage.storage_type \in {seedling, sapling}

\* some logical index below the highest mapped one is not mapped
HoleBelowHighest(mapped) ==
    \E h \in mapped :
        /\ \A m \in mapped : m <= h
        /\ \E i \in 0..(h - 1) : i \notin mapped

\* C14 as amended: for a Seedling and for a Sapling built from any index
\* block, data_blocks is the number of mapped blocks and last_block_index the
\* highest mapped index, or 0 when nothing is mapped; is_sparse() is true
\* iff data_blocks is smaller than last_block_index + 1, that is, iff an
\* index below the highest mapped one is unmapped or nothing is mapped at
\* all; a Seedling and a Sapling mapping exactly 0..n are never sparse.
SparseIffFewerBlocksThanExtent ==
    FlatResolverBuilt =>
        LET mapped == DOMAIN storage.index
        IN  /\ storage.data_blocks = Cardinality(mapped)
            /\ storage.last_block_index = MaxOf(mapped)
            /\ is_sparse(storage) = (Cardinality(mapped) < MaxOf(mapped) + 1)
            /\ is_sparse(storage) = (mapped = {} \/ HoleBelowHighest(mapped))
            /\ storage.storage_type = seedling => ~is_sparse(storage)
            /\ (\E n \in 0..255 : mapped = 0..n) => ~is_sparse(storage)

\* a Sapling mapping the logical blocks 0 and 2 was built and is sparse
SparseSaplingWitness ==
    /\ FlatResolverBuilt
    /\ storage.storage_type = sapling
    /\ DOMAIN storage.index = {0, 2}
    /\ storage.last_block_index = 2
    /\ is_sparse(storage)

\* C14 as stated: is_sparse() is true iff some logical index below the
\* highest mapped index is unmapped.
SparseIffHoleBelowHighest ==
    FlatResolverBuilt =>
        is_sparse(storage) = HoleBelowHighest(DOMAIN storage.index)

\* the resolvers of the tree under dir, each with the place of its entry
RECURSIVE Resolvers(_, _)
Resolvers(dir, loc) ==
    UNION {LET entry == dir.directory_blocks[bi].entries[ei]
               here  == Append(loc, (bi - 1) * entry_count + (ei - 1))
           IN  IF entry.cls # "SOSFileEntry" THEN {}
               ELSE IF entry.has_storage THEN {[loc |-> here, storage |-> entry.storage]}
               ELSE IF entry.has_subdir THEN Resolvers(entry.subdir, here)
               ELSE {}
           : bi \in 1..Len(dir.directory_blocks), ei \in 1..entry_count}

\* a step of a disk that is open leaves the buffer, the dirty flag and the
\* block maps as they are, and its close writes nothing
ReadOnlyStep ==
    pc = "ready" =>
        /\ disk'.dirty = disk.dirty
        /\ pc' # "closed" => disk'.data = disk.data
        /\ Resolvers(disk'.volume_directory, <<>>) = Resolvers(disk.volume_directory, <<>>)
        /\ handle'.writes = handle.writes

\* C15: for a disk opened from an existing image, the buffer holds the bytes
\* of the image and dirty is false however many listings, enumerations and
\* reads have run; no such step changes the buffer, the flag or a
\* resolver's block map, and the close that follows writes nothing to the
\* image file.
BufferOnlyWrittenByClose ==
    /\ []((pc = "ready" => (disk.data = volume_of(image) /\ ~disk.dirty))
          /\ handle.writes = 0)
    /\ [][ReadOnlyStep]_vars

\* a disk was closed after a long listing that marked a sparse file, and the
\* image file was not written
CloseWritesNothingWitness ==
    /\ pc = "closed"
    /\ handle.closes = 1
    /\ handle.writes = 0
    /\ last.cmd = "ls"
    /\ last.long
    /\ \E k \in 1..Len(last.out) : last.out[k].attrs[1] = "s"
    /\ Resolvers(disk.volume_directory, <<>>) # {}

=============================================================================
